---- MODULE Spec2Model ----
(***************************************************************************)
(* blurple_hook: the rate-limited webhook queue (mod queue, src/lib.rs     *)
(* lines 8-73) and the payload builder (Webhook / Embed, lines 76-377).    *)
(*                                                                         *)
(* Time is counted in milliseconds.  Timers saturate (at SleepMillis or at *)
(* AgeCap), so the state space is finite although the production loop      *)
(* never ends.  A payload in the queue is an identifier 1..MaxPayloads,    *)
(* given out in the order in which the enqueue calls obtain the lock.      *)
(***************************************************************************)
EXTENDS Integers, Sequences, FiniteSets, TLC

\* ------------------------------------------------------------------ bounds
MaxPayloads == 4
MaxBatch == 3
MaxMulti == 1

\* Duration::from_millis(2000), lib.rs line 68
SleepMillis == 2000

\* the steps by which the clock advances, and the saturation of the
\* iteration timer (long enough to tell a period of SleepMillis from a longer one)
TickSteps == {1000}
AgeCap == 2 * SleepMillis

Producers == {"p1", "p2"}
None == 0

Min(a, b) == IF a < b THEN a ELSE b
Max(a, b) == IF a > b THEN a ELSE b

VARIABLES
    \* ---- mod queue
    testMode,     \* cfg!(test): fixed at build time
    webhooks,     \* the VecDeque behind the Mutex: index 1 is the front
    lock,         \* holder of the Mutex: "free", "dispatcher" or a producer
    prod,         \* per producer: position in enqueue / enqueue_multi and the items still to push
    nextId,       \* payloads handed to the queue so far
    pc,           \* position of the task spawned by start
    one, two,     \* the two pop_back results of the current iteration
    sleepLeft,    \* time left until the sleep_until deadline
    lastOutcome,  \* result of the send that returned last in the current iteration: "none", "ok", "err"
    \* ---- observation of the run (history)
    delivered,    \* payloads whose send began, in order
    windows,      \* number of sends begun in each delivering iteration
    singles,      \* payloads pushed by enqueue
    multis,       \* batches pushed by enqueue_multi
    sendAges,     \* ages of the last two send begins, saturated at SleepMillis
    sincePop,     \* time since the current iteration began, saturated at AgeCap
    busy,         \* sincePop when the sleep deadline was computed, saturated at SleepMillis
    late,         \* the clock passed the deadline before the task woke
    \* ---- the payload builder
    embed,        \* the Embed value under construction
    webhook,      \* the Webhook value under construction
    body,         \* the body of the last send: <<>> before any
    steps,        \* builder calls made so far
    colourArg,    \* the argument of the last set_colour / set_color call and the method called
    calls         \* the add_field / add_fields calls made so far, with their fields

shared == <<webhooks, lock>>
prods == <<prod, nextId, singles, multis>>
disp == <<pc, one, two, sleepLeft, lastOutcome>>
sends == <<delivered, windows, sendAges>>
timers == <<sincePop, busy, late>>

qvars == <<testMode, shared, prods, disp, sends, timers>>
bvars == <<embed, webhook, body, steps, colourArg, calls>>

vars == <<qvars, bvars>>

Range(s) == {s[i] : i \in DOMAIN s}
Reverse(s) == [i \in 1..Len(s) |-> s[Len(s) + 1 - i]]
\* the index of x in s (0 when absent)
Pos(s, x) == IF x \in Range(s) THEN CHOOSE i \in DOMAIN s : s[i] = x ELSE 0

\* ------------------------------------------------------------ WebhookQueue
\* (a bug: push_back where the code has push_front)
PushBack(q, w) == q \o <<w>>

\* VecDeque::push_front
PushFront(q, w) == <<w>> \o q

\* (a bug: back() where the code has pop_back(): the element stays in the deque)
BackKeep(q) == q

\* VecDeque::pop_back: the element removed (None when empty) and the rest
PopBackValue(q) == IF q = <<>> THEN None ELSE q[Len(q)]
PopBackRest(q) == IF q = <<>> THEN <<>> ELSE SubSeq(q, 1, Len(q) - 1)

\* WebhookQueue::new, lines 22-26: an empty deque, nobody holds the lock
InitQueue ==
    /\ testMode \in BOOLEAN
    /\ webhooks = <<>>
    /\ lock = "free"
    /\ prod = [p \in Producers |-> [pc |-> "idle", kind |-> "none", items |-> <<>>]]
    /\ nextId = 0
    /\ pc = "new"
    /\ one = None
    /\ two = None
    /\ sleepLeft = 0
    /\ lastOutcome = "none"
    /\ delivered = <<>>
    /\ windows = <<>>
    /\ singles = {}
    /\ multis = {}
    /\ sendAges = <<SleepMillis, SleepMillis>>
    /\ sincePop = 0
    /\ busy = 0
    /\ late = FALSE

\* enqueue(queue, webhook): queue.lock().await returns, line 29
EnqueueLock(p) ==
    /\ prod[p].pc = "idle"
    /\ lock = "free"
    /\ nextId < MaxPayloads
    /\ lock' = p
    /\ nextId' = nextId + 1
    /\ prod' = [prod EXCEPT ![p] = [pc |-> "push", kind |-> "single", items |-> <<nextId + 1>>]]
    /\ UNCHANGED <<bvars, testMode, webhooks, singles, multis, disp, sends, timers>>

\* enqueue_multi(queue, webhooks) with a batch of n payloads: queue.lock().await returns, line 34
EnqueueMultiLock(p, n) ==
    /\ prod[p].pc = "idle"
    /\ lock = "free"
    /\ nextId + n <= MaxPayloads
    /\ Cardinality(multis) < MaxMulti
    /\ lock' = p
    /\ nextId' = nextId + n
    /\ prod' = [prod EXCEPT ![p] = [pc |-> "push", kind |-> "multi",
                                    items |-> [i \in 1..n |-> nextId + i]]]
    /\ multis' = multis \cup {[i \in 1..n |-> nextId + i]}
    /\ UNCHANGED <<bvars, testMode, webhooks, singles, disp, sends, timers>>

\* q.push_front(webhook), line 30, and one turn of the for loop, lines 35-37
ProducerPushFront(p) ==
    /\ prod[p].pc = "push"
    /\ lock = p
    /\ prod[p].items # <<>>
    /\ webhooks' = PushFront(webhooks, Head(prod[p].items))
    /\ prod' = [prod EXCEPT ![p].items = Tail(prod[p].items)]
    /\ singles' = IF prod[p].kind = "single" THEN singles \cup {Head(prod[p].items)} ELSE singles
    /\ UNCHANGED <<bvars, testMode, lock, nextId, multis, disp, sends, timers>>

\* the guard q is dropped when the function returns, lines 31 and 38
ProducerReturn(p) ==
    /\ prod[p].pc = "push"
    /\ lock = p
    /\ prod[p].items = <<>>
    /\ lock' = "free"
    /\ prod' = [prod EXCEPT ![p] = [pc |-> "idle", kind |-> "none", items |-> <<>>]]
    /\ UNCHANGED <<bvars, testMode, webhooks, nextId, singles, multis, disp, sends, timers>>

\* start(self), lines 40-42: the task is spawned and enters the loop
Start ==
    /\ pc = "new"
    /\ pc' = "lock"
    /\ sincePop' = 0
    /\ UNCHANGED <<bvars, testMode, shared, prods, one, two, sleepLeft, lastOutcome, sends, busy, late>>

\* self.webhooks.as_ref().lock().await returns, line 44
DispatcherLock ==
    /\ pc = "lock"
    /\ lock = "free"
    /\ lock' = "dispatcher"
    /\ pc' = "pop"
    /\ UNCHANGED <<bvars, testMode, webhooks, prods, one, two, sleepLeft, lastOutcome, sends, timers>>

\* (a bug: the second pop_back is left out)
DispatcherPopOne ==
    /\ pc = "pop"
    /\ lock = "dispatcher"
    /\ one' = PopBackValue(webhooks)
    /\ two' = None
    /\ webhooks' = PopBackRest(webhooks)
    /\ lock' = "free"
    /\ lastOutcome' = "none"
    /\ pc' = "check"
    /\ UNCHANGED <<bvars, testMode, prods, sleepLeft, sends, timers>>

\* (a bug: pop_front where the code has pop_back)
DispatcherPopFront ==
    /\ pc = "pop"
    /\ lock = "dispatcher"
    /\ one' = (IF webhooks = <<>> THEN None ELSE Head(webhooks))
    /\ two' = (IF Len(webhooks) < 2 THEN None ELSE webhooks[2])
    /\ webhooks' = (IF Len(webhooks) < 2 THEN <<>> ELSE Tail(Tail(webhooks)))
    /\ lock' = "free"
    /\ lastOutcome' = "none"
    /\ pc' = "check"
    /\ UNCHANGED <<bvars, testMode, prods, sleepLeft, sends, timers>>

\* (a bug: the guard outlives the block, as when whs is bound in the loop body)
DispatcherPopHold ==
    /\ pc = "pop"
    /\ lock = "dispatcher"
    /\ one' = PopBackValue(webhooks)
    /\ two' = PopBackValue(PopBackRest(webhooks))
    /\ webhooks' = PopBackRest(PopBackRest(webhooks))
    /\ lastOutcome' = "none"
    /\ pc' = "check"
    /\ UNCHANGED <<bvars, testMode, lock, prods, sleepLeft, sends, timers>>

\* the two pop_back calls and the end of the block, which drops the guard, lines 45-48
DispatcherPop ==
    /\ pc = "pop"
    /\ lock = "dispatcher"
    /\ one' = PopBackValue(webhooks)
    /\ two' = PopBackValue(PopBackRest(webhooks))
    /\ webhooks' = PopBackRest(PopBackRest(webhooks))
    /\ lock' = "free"
    /\ lastOutcome' = "none"
    /\ pc' = "check"
    /\ UNCHANGED <<bvars, testMode, prods, sleepLeft, sends, timers>>

\* (a bug: || where the code has &&)
DispatcherCheckEither ==
    /\ pc = "check"
    /\ pc' = IF testMode /\ (one = None \/ two = None) THEN "done" ELSE "send1"
    /\ UNCHANGED <<bvars, testMode, shared, prods, one, two, sleepLeft, lastOutcome, sends, timers>>

\* if cfg!(test) { if one.is_none() && two.is_none() { return self; } }, lines 50-54
DispatcherCheck ==
    /\ pc = "check"
    /\ pc' = IF testMode /\ one = None /\ two = None THEN "done" ELSE "send1"
    /\ UNCHANGED <<bvars, testMode, shared, prods, one, two, sleepLeft, lastOutcome, sends, timers>>

\* what the observer notes when the send of payload w begins
NoteSend(w, first) ==
    /\ delivered' = Append(delivered, w)
    /\ windows' = IF first THEN Append(windows, 1)
                  ELSE [windows EXCEPT ![Len(windows)] = @ + 1]
    /\ sendAges' = <<sendAges[2], 0>>

\* match one { Some(w) => w.send().await, None => Ok(()) }, lines 57-60: the call begins
SendOneBegin ==
    /\ pc = "send1"
    /\ IF one # None
       THEN pc' = "sending1" /\ NoteSend(one, TRUE)
       ELSE pc' = "send2" /\ UNCHANGED sends
    /\ UNCHANGED <<bvars, testMode, shared, prods, one, two, sleepLeft, lastOutcome, timers>>

\* the send returns Ok or Err; let _ = discards it, line 57
SendOneEnd(outcome) ==
    /\ pc = "sending1"
    /\ lastOutcome' = outcome
    /\ pc' = "send2"
    /\ UNCHANGED <<bvars, testMode, shared, prods, one, two, sleepLeft, sends, timers>>

\* match two { ... }, lines 62-65: the call begins
SendTwoBegin ==
    /\ pc = "send2"
    /\ IF two # None
       THEN pc' = "sending2" /\ NoteSend(two, one = None) /\ lastOutcome' = "none"
       ELSE pc' = "sleepcalc" /\ UNCHANGED <<sends, lastOutcome>>
    /\ UNCHANGED <<bvars, testMode, shared, prods, one, two, sleepLeft, timers>>

\* the send returns Ok or Err; let _ = discards it, line 62
SendTwoEnd(outcome) ==
    /\ pc = "sending2"
    /\ lastOutcome' = outcome
    /\ pc' = "sleepcalc"
    /\ UNCHANGED <<bvars, testMode, shared, prods, one, two, sleepLeft, sends, timers>>

\* (a bug: the deadline counted from the instant the iteration began)
SleepDeadlineFromStart(elapsed) == Max(SleepMillis - elapsed, 0)

\* Instant::now() + Duration::from_millis(2000), line 68, evaluated after both sends
\* have returned: the time left until the deadline when the sleep begins
SleepDeadline(elapsed) == SleepMillis

\* tokio::time::sleep_until(deadline).await begins, line 68
DispatcherSleep ==
    /\ pc = "sleepcalc"
    /\ sleepLeft' = SleepDeadline(sincePop)
    /\ busy' = Min(sincePop, SleepMillis)
    /\ late' = FALSE
    /\ pc' = "sleep"
    /\ UNCHANGED <<bvars, testMode, shared, prods, one, two, lastOutcome, sends, sincePop>>

\* (a bug: the sleep_until future is not awaited)
DispatcherWakeAtOnce ==
    /\ pc = "sleep"
    /\ pc' = "lock"
    /\ sincePop' = 0
    /\ busy' = 0
    /\ late' = FALSE
    /\ UNCHANGED <<bvars, testMode, shared, prods, one, two, sleepLeft, lastOutcome, sends>>

\* the deadline has passed: the loop starts its next iteration, line 42
DispatcherWake ==
    /\ pc = "sleep"
    /\ sleepLeft = 0
    /\ pc' = "lock"
    /\ sincePop' = 0
    /\ busy' = 0
    /\ late' = FALSE
    /\ UNCHANGED <<bvars, testMode, shared, prods, one, two, sleepLeft, lastOutcome, sends>>

\* the clock (tokio::time::Instant) advances by d milliseconds
Tick(d) ==
    /\ pc \notin {"new", "done"}
    /\ sleepLeft' = Max(sleepLeft - d, 0)
    /\ late' = (late \/ (pc = "sleep" /\ d > sleepLeft))
    /\ sendAges' = <<Min(sendAges[1] + d, SleepMillis), Min(sendAges[2] + d, SleepMillis)>>
    /\ sincePop' = Min(sincePop + d, AgeCap)
    /\ UNCHANGED <<bvars, testMode, shared, prods, pc, one, two, lastOutcome, delivered, windows, busy>>

Outcomes == {"ok", "err"}

Producer ==
    \E p \in Producers :
        \/ EnqueueLock(p)
        \/ \E n \in 0..MaxBatch : EnqueueMultiLock(p, n)
        \/ ProducerPushFront(p)
        \/ ProducerReturn(p)

Dispatcher ==
    \/ Start
    \/ DispatcherLock
    \/ DispatcherPop
    \/ DispatcherCheck
    \/ SendOneBegin
    \/ \E o \in Outcomes : SendOneEnd(o)
    \/ SendTwoBegin
    \/ \E o \in Outcomes : SendTwoEnd(o)
    \/ DispatcherSleep
    \/ DispatcherWake

Clock == \E d \in TickSteps : Tick(d)


\* ------------------------------------------------------ Webhook and Embed
\* Option<T>: None is the empty sequence, Some(v) the sequence of v alone
NoneOpt == <<>>
Some(v) == <<v>>

MaxBuilderCalls == 3
MaxFieldBatch == 2
MaxStrLen == 4

MaxDigits == 7

\* the width of usize, scaled down to what the integers of the checker hold: wide enough
\* for every 24-bit colour and for the fallback, overflowed by a run of MaxDigits digits
UsizeBits == 24
UsizeMax == 2 ^ UsizeBits - 1

\* .unwrap_or(10066329), line 255
FallbackColour == 10066329

\* Embed::new, lines 209-225
EmbedNew ==
    [title |-> NoneOpt, type |-> "rich", description |-> NoneOpt, url |-> NoneOpt,
     timestamp |-> NoneOpt, color |-> NoneOpt, footer |-> NoneOpt, image |-> NoneOpt,
     thumbnail |-> NoneOpt, video |-> NoneOpt, provider |-> NoneOpt, author |-> NoneOpt,
     fields |-> <<>>]

\* Webhook::new, lines 158-167
WebhookNew(webhook_url) ==
    [webhook_url |-> webhook_url, content |-> NoneOpt, username |-> NoneOpt,
     avatar_url |-> NoneOpt, embeds |-> <<>>, components |-> <<>>]

NoColourArg == [kind |-> "none", hex |-> <<>>, int |-> 0, via |-> "none"]

InitBuilder ==
    /\ embed = EmbedNew
    /\ webhook = WebhookNew("https://discord.com/webhook")
    /\ body = <<>>
    /\ steps = 0
    /\ colourArg = NoColourArg
    /\ calls = <<>>

\* ---- colour
\* char::to_digit(16): the value of a hexadecimal digit, -1 for any other character
ToDigit(c) ==
    CASE c = "0" -> 0
      [] c = "1" -> 1
      [] c = "F" -> 15
      [] OTHER -> -1

\* the loop of from_str_radix: digits folded with checked_mul and checked_add;
\* the result is None on a character that is no digit and on overflow
RECURSIVE ParseDigits(_, _)
ParseDigits(s, acc) ==
    IF s = <<>> THEN Some(acc)
    ELSE IF ToDigit(Head(s)) < 0 THEN NoneOpt
    ELSE IF acc * 16 + ToDigit(Head(s)) > UsizeMax THEN NoneOpt
    ELSE ParseDigits(Tail(s), acc * 16 + ToDigit(Head(s)))

\* usize::from_str_radix(s, 16), line 249: Err on the empty string and on a lone
\* sign; one leading "+" is accepted
FromStrRadix16(s) ==
    IF s = <<>> THEN NoneOpt
    ELSE IF s = <<"+">> THEN NoneOpt
    ELSE IF Head(s) = "+" THEN ParseDigits(Tail(s), 0)
    ELSE ParseDigits(s, 0)

\* .trim_start_matches('#'), line 251: every leading '#' is removed
RECURSIVE TrimStartHash(_)
TrimStartHash(s) ==
    IF s # <<>> /\ Head(s) = "#" THEN TrimStartHash(Tail(s)) ELSE s

\* (a bug: the "0x" prefix is not removed)
KeepStart0x(s) == s

\* .trim_start_matches("0x"), line 252: every leading "0x" is removed
RECURSIVE TrimStart0x(_)
TrimStart0x(s) ==
    IF Len(s) >= 2 /\ s[1] = "0" /\ s[2] = "x" THEN TrimStart0x(Tail(Tail(s))) ELSE s

Hex(s) == [kind |-> "Hex", hex |-> s, int |-> 0]
Integer(n) == [kind |-> "Integer", hex |-> <<>>, int |-> n]

\* Embed::set_colour, lines 247-261
set_colour(e, colour) ==
    LET parsed == FromStrRadix16(TrimStart0x(TrimStartHash(colour.hex)))
        value == IF colour.kind = "Hex"
                 THEN (IF parsed = NoneOpt THEN FallbackColour ELSE parsed[1])
                 ELSE colour.int
    IN [e EXCEPT !.color = Some(value)]

\* Embed::set_color, lines 262-264
set_color(e, color) == set_colour(e, color)

\* ---- the other setters
\* Webhook::set_content, set_username, set_avatar_url, add_embed, lines 168-183
set_content(w, content) == [w EXCEPT !.content = Some(content)]
set_username(w, username) == [w EXCEPT !.username = Some(username)]
set_avatar_url(w, url) == [w EXCEPT !.avatar_url = Some(url)]
add_embed(w, e) == [w EXCEPT !.embeds = Append(@, e)]

\* Embed::set_title, set_description, set_url, lines 226-237
set_title(e, title) == [e EXCEPT !.title = Some(title)]
set_description(e, description) == [e EXCEPT !.description = Some(description)]
set_url(e, url) == [e EXCEPT !.url = Some(url)]

\* timestamp.format("%+").to_string(), line 243, of the two instants of the model
FormatTimestamp(instant) ==
    IF instant = "epoch" THEN "1970-01-01T00:00:00+00:00" ELSE "2026-11-06T10:00:00+00:00"

\* Embed::set_timestamp, lines 238-246: Utc::now() when no instant is given
set_timestamp(e, timestamp) ==
    [e EXCEPT !.timestamp = Some(FormatTimestamp(IF timestamp = NoneOpt THEN "now" ELSE timestamp[1]))]

\* Embed::set_footer, lines 265-281
set_footer(e, text, icon_url, proxy_icon_url) ==
    [e EXCEPT !.footer = Some([text |-> text, icon_url |-> icon_url, proxy_icon_url |-> proxy_icon_url])]

\* Embed::set_image, set_thumbnail, set_video, lines 282-335
Media(url, proxy_url, height, width) ==
    [url |-> url, proxy_url |-> proxy_url, height |-> height, width |-> width]
set_image(e, url, proxy_url, height, width) ==
    [e EXCEPT !.image = Some(Media(url, proxy_url, height, width))]
set_thumbnail(e, url, proxy_url, height, width) ==
    [e EXCEPT !.thumbnail = Some(Media(url, proxy_url, height, width))]
set_video(e, url, proxy_url, height, width) ==
    [e EXCEPT !.video = Some(Media(url, proxy_url, height, width))]

\* Embed::set_provider, lines 336-341
set_provider(e, name, url) == [e EXCEPT !.provider = Some([name |-> name, url |-> url])]

\* Embed::set_author, lines 342-360
set_author(e, name, url, icon_url, proxy_icon_url) ==
    [e EXCEPT !.author = Some([name |-> name, url |-> url, icon_url |-> icon_url,
                               proxy_icon_url |-> proxy_icon_url])]

\* (a bug: insert(0, field) where the code has push(field))
add_field_front(e, name, value, inline) ==
    [e EXCEPT !.fields = <<[name |-> name, value |-> value, inline |-> inline]>> \o @]

\* Embed::add_field, lines 361-371
add_field(e, name, value, inline) ==
    [e EXCEPT !.fields = Append(@, [name |-> name, value |-> value, inline |-> inline])]

\* Embed::add_fields, lines 373-376: Vec::append moves the fields to the end
add_fields(e, fields) == [e EXCEPT !.fields = @ \o fields]

\* ---- serde_json::to_string(self), line 187
\* The body is written as the sequence of its members in the order serde emits them:
\* each member with its path from the root, the kind of its value and the value.
Member(path, kind, str, num) == [path |-> path, kind |-> kind, str |-> str, num |-> num]

IndexText(i) == <<"0", "1", "2", "3", "4", "5", "6", "7", "8", "9">>[i]

\* a String, a bool, a usize
SerString(path, v) == <<Member(path, "string", v, 0)>>
SerBool(path, v) == <<Member(path, "bool", IF v THEN "true" ELSE "false", 0)>>
SerUsize(path, v) == <<Member(path, "number", "", v)>>

\* Option<T> without skip_serializing_if: None is written as null
SerOptString(path, o) == IF o = NoneOpt THEN <<Member(path, "null", "", 0)>> ELSE SerString(path, o[1])
SerOptUsize(path, o) == IF o = NoneOpt THEN <<Member(path, "null", "", 0)>> ELSE SerUsize(path, o[1])

\* struct Footer, lines 107-112
SerFooter(path, o) ==
    IF o = NoneOpt THEN <<Member(path, "null", "", 0)>>
    ELSE <<Member(path, "object", "", 0)>>
         \o SerString(path \o <<"text">>, o[1].text)
         \o SerOptString(path \o <<"icon_url">>, o[1].icon_url)
         \o SerOptString(path \o <<"proxy_icon_url">>, o[1].proxy_icon_url)

\* struct Image, Thumbnail, Video, lines 113-133
SerMedia(path, o) ==
    IF o = NoneOpt THEN <<Member(path, "null", "", 0)>>
    ELSE <<Member(path, "object", "", 0)>>
         \o SerString(path \o <<"url">>, o[1].url)
         \o SerOptString(path \o <<"proxy_url">>, o[1].proxy_url)
         \o SerOptUsize(path \o <<"height">>, o[1].height)
         \o SerOptUsize(path \o <<"width">>, o[1].width)

\* struct Provider, lines 134-138
SerProvider(path, o) ==
    IF o = NoneOpt THEN <<Member(path, "null", "", 0)>>
    ELSE <<Member(path, "object", "", 0)>>
         \o SerOptString(path \o <<"name">>, o[1].name)
         \o SerOptString(path \o <<"url">>, o[1].url)

\* struct Author, lines 139-145
SerAuthor(path, o) ==
    IF o = NoneOpt THEN <<Member(path, "null", "", 0)>>
    ELSE <<Member(path, "object", "", 0)>>
         \o SerString(path \o <<"name">>, o[1].name)
         \o SerOptString(path \o <<"url">>, o[1].url)
         \o SerOptString(path \o <<"icon_url">>, o[1].icon_url)
         \o SerOptString(path \o <<"proxy_icon_url">>, o[1].proxy_icon_url)

\* struct Field, lines 146-151
SerField(path, f) ==
    <<Member(path, "object", "", 0)>>
    \o SerString(path \o <<"name">>, f.name)
    \o SerString(path \o <<"value">>, f.value)
    \o SerBool(path \o <<"inline">>, f.inline)

\* Vec<Field>: the elements i.. of the array
RECURSIVE SerFieldsFrom(_, _, _)
SerFieldsFrom(path, fs, i) ==
    IF i > Len(fs) THEN <<>>
    ELSE SerField(path \o <<IndexText(i)>>, fs[i]) \o SerFieldsFrom(path, fs, i + 1)

\* struct Embed, lines 90-106: _type is renamed "type"
SerEmbed(path, e) ==
    <<Member(path, "object", "", 0)>>
    \o SerOptString(path \o <<"title">>, e.title)
    \o SerString(path \o <<"type">>, e.type)
    \o SerOptString(path \o <<"description">>, e.description)
    \o SerOptString(path \o <<"url">>, e.url)
    \o SerOptString(path \o <<"timestamp">>, e.timestamp)
    \o SerOptUsize(path \o <<"color">>, e.color)
    \o SerFooter(path \o <<"footer">>, e.footer)
    \o SerMedia(path \o <<"image">>, e.image)
    \o SerMedia(path \o <<"thumbnail">>, e.thumbnail)
    \o SerMedia(path \o <<"video">>, e.video)
    \o SerProvider(path \o <<"provider">>, e.provider)
    \o SerAuthor(path \o <<"author">>, e.author)
    \o <<Member(path \o <<"fields">>, "array", "", Len(e.fields))>>
    \o SerFieldsFrom(path \o <<"fields">>, e.fields, 1)

\* Vec<Embed>: the elements i.. of the array
RECURSIVE SerEmbedsFrom(_, _, _)
SerEmbedsFrom(path, es, i) ==
    IF i > Len(es) THEN <<>>
    ELSE SerEmbed(path \o <<IndexText(i)>>, es[i]) \o SerEmbedsFrom(path, es, i + 1)

\* struct Webhook, lines 76-85: webhook_url is #[serde(skip)]
SerWebhook(w) ==
    SerOptString(<<"content">>, w.content)
    \o SerOptString(<<"username">>, w.username)
    \o SerOptString(<<"avatar_url">>, w.avatar_url)
    \o <<Member(<<"embeds">>, "array", "", Len(w.embeds))>>
    \o SerEmbedsFrom(<<"embeds">>, w.embeds, 1)
    \o <<Member(<<"components">>, "array", "", Len(w.components))>>

\* ---- the builder calls as steps
Strings == {"s"}
OptStrings == {NoneOpt, Some("s")}
OptSizes == {NoneOpt, Some(1)}
Instants == {NoneOpt, Some("epoch")}
FieldValues ==
    {[name |-> "Example 1", value |-> "Value 1", inline |-> TRUE],
     [name |-> "Example 2", value |-> "Value 2", inline |-> FALSE]}
Alphabet == {"#", "+", "0", "1", "F", "g", "x"}

\* the strings over Alphabet of length up to n
RECURSIVE StringsUpTo(_)
StringsUpTo(n) ==
    IF n = 0 THEN {<<>>}
    ELSE LET shorter == StringsUpTo(n - 1)
         IN shorter \cup {Append(t, c) : t \in shorter, c \in Alphabet}

\* longer strings: a run of one digit after a prefix, and the colour of tests::create_embed
Prefixes == {<<>>, <<"#">>, <<"0", "x">>, <<"#", "0", "x">>, <<"0", "x", "#">>, <<"+">>}
DigitRuns ==
    {pre \o [i \in 1..n |-> d] : pre \in Prefixes, d \in {"0", "1"}, n \in (MaxStrLen + 1)..MaxDigits}
TestColour == <<"#", "F", "F", "F", "F", "F", "F">>

ColourInputs ==
    {Hex(t) : t \in StringsUpTo(MaxStrLen) \cup DigitRuns \cup {TestColour}}
    \cup {Integer(n) : n \in {0, 1, UsizeMax}}
FieldBatches == UNION {[1..n -> FieldValues] : n \in 0..MaxFieldBatch}

\* embed.set_colour(c); the model follows one colour call per Embed
SetColour(c) ==
    /\ steps < MaxBuilderCalls
    /\ body = <<>>
    /\ colourArg.via = "none"
    /\ embed' = set_colour(embed, c)
    /\ colourArg' = c @@ [via |-> "set_colour"]
    /\ steps' = steps + 1
    /\ UNCHANGED <<qvars, webhook, body, calls>>

\* embed.set_color(c)
SetColor(c) ==
    /\ steps < MaxBuilderCalls
    /\ body = <<>>
    /\ colourArg.via = "none"
    /\ embed' = set_color(embed, c)
    /\ colourArg' = c @@ [via |-> "set_color"]
    /\ steps' = steps + 1
    /\ UNCHANGED <<qvars, webhook, body, calls>>

\* embed.add_field(name, value, inline)
AddField(f) ==
    /\ steps < MaxBuilderCalls
    /\ body = <<>>
    /\ embed' = add_field(embed, f.name, f.value, f.inline)
    /\ calls' = Append(calls, [op |-> "add_field", fields |-> <<f>>])
    /\ steps' = steps + 1
    /\ UNCHANGED <<qvars, webhook, body, colourArg>>

\* embed.add_fields(&mut fs)
AddFields(fs) ==
    /\ steps < MaxBuilderCalls
    /\ body = <<>>
    /\ embed' = add_fields(embed, fs)
    /\ calls' = Append(calls, [op |-> "add_fields", fields |-> fs])
    /\ steps' = steps + 1
    /\ UNCHANGED <<qvars, webhook, body, colourArg>>

\* a setter of Embed that takes the embed to e
EmbedStep(e) ==
    /\ steps < MaxBuilderCalls
    /\ body = <<>>
    /\ embed' = e
    /\ steps' = steps + 1
    /\ UNCHANGED <<qvars, webhook, body, colourArg, calls>>

\* a setter of Webhook that takes the webhook to w
WebhookStep(w) ==
    /\ steps < MaxBuilderCalls
    /\ body = <<>>
    /\ webhook' = w
    /\ steps' = steps + 1
    /\ UNCHANGED <<qvars, embed, body, colourArg, calls>>

SetTitle == \E t \in Strings : EmbedStep(set_title(embed, t))
SetDescription == \E t \in Strings : EmbedStep(set_description(embed, t))
SetUrl == \E t \in Strings : EmbedStep(set_url(embed, t))
SetTimestamp == \E t \in Instants : EmbedStep(set_timestamp(embed, t))
SetFooter == \E t \in Strings, o \in OptStrings : EmbedStep(set_footer(embed, t, o, o))
SetImage == \E u \in Strings, o \in OptStrings, n \in OptSizes : EmbedStep(set_image(embed, u, o, n, n))
SetThumbnail == \E u \in Strings, o \in OptStrings, n \in OptSizes : EmbedStep(set_thumbnail(embed, u, o, n, n))
SetVideo == \E u \in Strings, o \in OptStrings, n \in OptSizes : EmbedStep(set_video(embed, u, o, n, n))
SetProvider == \E a \in OptStrings, b \in OptStrings : EmbedStep(set_provider(embed, a, b))
SetAuthor == \E t \in Strings, o \in OptStrings : EmbedStep(set_author(embed, t, o, o, o))
SetContent == \E t \in Strings : WebhookStep(set_content(webhook, t))
SetUsername == \E t \in Strings : WebhookStep(set_username(webhook, t))
SetAvatarUrl == \E t \in Strings : WebhookStep(set_avatar_url(webhook, t))

\* webhook.add_embed(embed): the embed is moved into the webhook
AddEmbed ==
    /\ steps < MaxBuilderCalls
    /\ body = <<>>
    /\ webhook' = add_embed(webhook, embed)
    /\ embed' = EmbedNew
    /\ calls' = <<>>
    /\ colourArg' = NoColourArg
    /\ steps' = steps + 1
    /\ UNCHANGED <<qvars, body>>

\* Webhook::send, lines 184-194: the body that is posted
Send ==
    /\ body = <<>>
    /\ body' = <<SerWebhook(webhook)>>
    /\ UNCHANGED <<qvars, embed, webhook, steps, colourArg, calls>>

\* ---- the specifications
\* the queue: producers, the dispatcher task and the clock
Init == InitQueue /\ InitBuilder

Next == Producer \/ Dispatcher \/ Clock

Spec == Init /\ [][Next]_vars

\* set_colour and set_color on a new Embed
\* (the guard of the calls comes first: the inputs are drawn only where a call is made)
NextColour ==
    \/ colourArg.via = "none" /\ \E c \in ColourInputs : SetColour(c)
    \/ colourArg.via = "none" /\ \E c \in ColourInputs : SetColor(c)

SpecColour == Init /\ [][NextColour]_vars

\* calls of add_field and add_fields on a new Embed
NextFields ==
    \/ \E f \in FieldValues : AddField(f)
    \/ \E fs \in FieldBatches : AddFields(fs)

SpecFields == Init /\ [][NextFields]_vars

\* a Webhook is built, then sent
NextWire ==
    \/ SetTitle \/ SetDescription \/ SetUrl \/ SetTimestamp
    \/ SetFooter \/ SetImage \/ SetThumbnail \/ SetVideo
    \/ SetProvider \/ SetAuthor
    \/ SetContent \/ SetUsername \/ SetAvatarUrl
    \/ SetColour(Integer(1))
    \/ \E f \in FieldValues : AddField(f)
    \/ AddEmbed
    \/ Send

SpecWire == Init /\ [][NextWire]_vars

\* ------------------------------------------------- the bounded (test) run
\* the deque after enqueue has been called n times on a new queue (tests::test_queue, lines 585-596)
RECURSIVE Enqueued(_)
Enqueued(n) == IF n = 0 THEN <<>> ELSE PushFront(Enqueued(n - 1), n)

MaxDrain == 5

\* n payloads are enqueued, then start is called and nothing is enqueued any more (test build)
InitDrain ==
    /\ testMode = TRUE
    /\ nextId \in 0..MaxDrain
    /\ webhooks = Enqueued(nextId)
    /\ singles = 1..nextId
    /\ lock = "free"
    /\ prod = [p \in Producers |-> [pc |-> "idle", kind |-> "none", items |-> <<>>]]
    /\ pc = "new"
    /\ one = None
    /\ two = None
    /\ sleepLeft = 0
    /\ lastOutcome = "none"
    /\ delivered = <<>>
    /\ windows = <<>>
    /\ multis = {}
    /\ sendAges = <<SleepMillis, SleepMillis>>
    /\ sincePop = 0
    /\ busy = 0
    /\ late = FALSE
    /\ InitBuilder

NextDrain == Dispatcher \/ Clock

\* the spawned task is scheduled, every send returns and the clock advances
SpecDrain == InitDrain /\ [][NextDrain]_vars /\ WF_vars(Dispatcher) /\ WF_vars(Clock)

\* ------------------------------------------------------------------ claims

\* C1: the dispatcher begins at most two sends in any interval shorter than two
\* seconds: an iteration begins at most two sends, the first send of an iteration
\* begins no less than SleepMillis after both sends before it, and the second no
\* less than SleepMillis after the last send of the iteration before.
C1_ThroughputCeiling ==
    /\ \A i \in DOMAIN windows : windows[i] <= 2
    /\ (pc = "send1" /\ one # None) => (sendAges[1] >= SleepMillis /\ sendAges[2] >= SleepMillis)
    /\ (pc = "send2" /\ two # None) => sendAges[1] >= SleepMillis

\* a third send is about to begin after an iteration that sent two
C1_Witness ==
    /\ pc = "send1"
    /\ one # None
    /\ Len(delivered) >= 2
    /\ windows[Len(windows)] = 2

\* C2 (as the claim has it): a batch [a, b, c] pushed alone by enqueue_multi onto the
\* empty queue is, once drained, delivered in the order c, b, a.
C2_BatchReversed ==
    \A b \in multis :
        (Len(b) = 3 /\ singles = {} /\ nextId = 3 /\ Len(delivered) = 3) => delivered = Reverse(b)

\* C2 (amended): the payloads of an enqueue_multi batch are delivered in the order of
\* the batch: once all are delivered, the deliveries of the batch are a, b, c.
C2_BatchInOrder ==
    \A b \in multis :
        (Range(b) \subseteq Range(delivered)) => SelectSeq(delivered, LAMBDA w : w \in Range(b)) = b

\* a batch of three, pushed alone onto the empty queue, has been drained
C2_Witness ==
    \E b \in multis :
        /\ Len(b) = 3
        /\ singles = {}
        /\ nextId = 3
        /\ delivered = b
        /\ webhooks = <<>>

\* C3 (as the claim has it): when the sleep deadline arrives, exactly SleepMillis have
\* passed since the iteration began.
C3_PeriodFromStart ==
    (pc = "sleep" /\ sleepLeft = 0 /\ ~late) => sincePop = SleepMillis

\* C3 (amended): the deadline is counted from the end of the iteration's sends: when
\* it arrives, the time since the iteration began is the time the lock and the sends
\* took plus SleepMillis, and the next iteration never begins earlier than that.
C3_PeriodFromSendsEnd ==
    (pc = "sleep" /\ sleepLeft = 0) =>
        /\ sincePop >= busy + SleepMillis
        /\ ~late => sincePop = busy + SleepMillis

\* the deadline arrives on time after an iteration whose sends took time
C3_Witness ==
    /\ pc = "sleep"
    /\ sleepLeft = 0
    /\ ~late
    /\ one # None
    /\ busy > 0
    /\ busy < SleepMillis

\* C4: in the test build, with n payloads enqueued before start and none after, the
\* task terminates with the queue empty after ceil(n/2) delivering iterations, each
\* of two sends but the last of one when n is odd.
ExpectedWindows(n) == [i \in 1..((n + 1) \div 2) |-> IF 2 * i <= n THEN 2 ELSE 1]

C4_BoundedDrain ==
    <>(/\ pc = "done"
       /\ webhooks = <<>>
       /\ Len(delivered) = nextId
       /\ windows = ExpectedWindows(nextId))

\* five payloads were drained in windows of 2, 2, 1
C4_Witness ==
    /\ pc = "done"
    /\ nextId = 5
    /\ webhooks = <<>>
    /\ windows = <<2, 2, 1>>

\* C5: send is begun at most once per payload, and a payload whose send has begun is
\* never in the queue again nor in a producer's hands.
C5_AtMostOnce ==
    /\ \A i, j \in DOMAIN delivered : delivered[i] = delivered[j] => i = j
    /\ Range(delivered) \cap Range(webhooks) = {}
    /\ \A p \in Producers : Range(delivered) \cap Range(prod[p].items) = {}

\* a send has failed and the next iteration is about to pop other payloads
C5_Witness ==
    /\ pc = "lock"
    /\ lastOutcome = "err"
    /\ delivered # <<>>
    /\ webhooks # <<>>

\* C6: the task terminates only in the test build and only in an iteration whose two
\* pops returned nothing; a failed send leaves the loop running; the production
\* build never terminates.
C6_OnlyStop ==
    /\ pc = "done" => (testMode /\ one = None /\ two = None /\ lastOutcome = "none")
    /\ ~testMode => pc # "done"
    /\ lastOutcome = "err" => pc \in {"send2", "sleepcalc", "sleep", "lock", "pop"}

\* the test build has terminated after delivering payloads
C6_Witness ==
    /\ testMode
    /\ pc = "done"
    /\ delivered # <<>>
    /\ webhooks = <<>>

\* C7: payloads pushed by enqueue are delivered in the order in which their calls
\* obtained the lock, and the two payloads of an iteration in the order popped.
C7_SingleFifo ==
    /\ \A x, y \in singles :
          (x < y /\ y \in Range(delivered)) => (Pos(delivered, x) # 0 /\ Pos(delivered, x) < Pos(delivered, y))
    /\ (one # None /\ two # None /\ two \in Range(delivered)) =>
          (Pos(delivered, one) # 0 /\ Pos(delivered, one) < Pos(delivered, two))
    /\ pc = "sending2" => delivered[Len(delivered)] = two

\* the second of two payloads pushed by enqueue is being sent after the first
C7_Witness ==
    /\ pc = "sending2"
    /\ one \in singles
    /\ two \in singles
    /\ one < two

\* C8 (as the claim has it): the fields of an Embed are the fields of its add_field
\* calls, in call order, followed by the fields of its add_fields calls, in call order.
RECURSIVE FieldsOfCalls(_, _)
FieldsOfCalls(cs, ops) ==
    IF cs = <<>> THEN <<>>
    ELSE (IF Head(cs).op \in ops THEN Head(cs).fields ELSE <<>>) \o FieldsOfCalls(Tail(cs), ops)

C8_IndividualThenBulk ==
    embed.fields = FieldsOfCalls(calls, {"add_field"}) \o FieldsOfCalls(calls, {"add_fields"})

\* C8 (amended): the fields of an Embed are the fields of its add_field and add_fields
\* calls in the order of the calls, those of one add_fields call in the order supplied.
C8_CallOrder ==
    embed.fields = FieldsOfCalls(calls, {"add_field", "add_fields"})

\* add_field was called after an add_fields that supplied another field
C8_Witness ==
    /\ Len(calls) = 3
    /\ calls[1].op = "add_field"
    /\ calls[2].op = "add_fields"
    /\ Len(calls[2].fields) = 2
    /\ calls[3].op = "add_field"
    /\ calls[3].fields[1] # calls[2].fields[1]
    /\ Len(embed.fields) = 4

\* C9: the body that send posts has no null and no member for an optional attribute
\* that was never set, and every embed has the member "type" with the value "rich".
C9_UnsetOmitted ==
    body # <<>> =>
        /\ \A i \in DOMAIN body[1] : body[1][i].kind # "null"
        /\ \A k \in DOMAIN webhook.embeds :
              \E i \in DOMAIN body[1] :
                  /\ body[1][i].path = <<"embeds", IndexText(k), "type">>
                  /\ body[1][i].str = "rich"

\* C10: what the claim calls the base-16 value of a string of hexadecimal digits
RECURSIVE HexValue(_)
HexValue(h) ==
    IF h = <<>> THEN 0 ELSE HexValue(SubSeq(h, 1, Len(h) - 1)) * 16 + ToDigit(h[Len(h)])

IsHexDigits(h) == h # <<>> /\ \A i \in DOMAIN h : h[i] \in {"0", "1", "F"}
Suffixes(t) == {SubSeq(t, i, Len(t)) : i \in 1..(Len(t) + 1)}
PrefixedForms(h) == {h, <<"#">> \o h, <<"0", "x">> \o h}
Unsigned(t) == IF t # <<>> /\ Head(t) = "+" THEN Tail(t) ELSE t
Stripped == TrimStart0x(TrimStartHash(colourArg.hex))

\* C10 (as the claim has it): a string h of hexadecimal digits, bare or after "#" or
\* "0x", stores the base-16 value of h; a string that cannot be parsed after the
\* prefixes are stripped stores 10066329; Integer(n) stores n; set_color and
\* set_colour agree; a colour is stored by every call.
C10_AnyHexString ==
    colourArg.via # "none" =>
        /\ embed.color # NoneOpt
        /\ colourArg.kind = "Integer" => embed.color = Some(colourArg.int)
        /\ colourArg.kind = "Hex" =>
              /\ \A h \in Suffixes(colourArg.hex) :
                    (IsHexDigits(h) /\ colourArg.hex \in PrefixedForms(h))
                        => embed.color = Some(HexValue(h))
              /\ ~IsHexDigits(Unsigned(Stripped)) => embed.color = Some(FallbackColour)

\* C10 (amended): the same for the strings h whose value fits in usize; a string of
\* digits whose value does not fit stores 10066329 like the strings that cannot be parsed.
C10_HexStringThatFits ==
    colourArg.via # "none" =>
        /\ embed.color # NoneOpt
        /\ colourArg.kind = "Integer" => embed.color = Some(colourArg.int)
        /\ colourArg.kind = "Hex" =>
              /\ \A h \in Suffixes(colourArg.hex) :
                    (IsHexDigits(h) /\ HexValue(h) <= UsizeMax /\ colourArg.hex \in PrefixedForms(h))
                        => embed.color = Some(HexValue(h))
              /\ (~IsHexDigits(Unsigned(Stripped)) \/ HexValue(Unsigned(Stripped)) > UsizeMax)
                    => embed.color = Some(FallbackColour)

\* set_colour(Hex("#FFFFFF")) has stored 16777215, as in tests::create_embed
C10_Witness ==
    /\ colourArg.via = "set_colour"
    /\ colourArg.kind = "Hex"
    /\ colourArg.hex = TestColour
    /\ embed.color = Some(16777215)

\* the positions of the task at which a send is in flight or the sleep is in progress
Awaiting == {"sending1", "sending2", "sleep"}

\* C11: the dispatcher holds the lock of the deque only between acquiring it and the
\* end of its two pops, never while a send is in flight or while it sleeps; a producer
\* holds it only from acquiring it to the return of its enqueue or enqueue_multi call;
\* and while a send is in flight or the task sleeps, a producer that finds the lock free
\* of other producers can acquire it, so a send that never returns blocks no enqueue.
C11_LockDiscipline ==
    /\ lock = "dispatcher" => pc = "pop"
    /\ pc \in Awaiting => lock # "dispatcher"
    /\ \A p \in Producers : lock = p <=> prod[p].pc = "push"
    /\ \A p \in Producers :
          (pc \in Awaiting /\ lock \notin Producers /\ prod[p].pc = "idle" /\ nextId < MaxPayloads)
              => ENABLED EnqueueLock(p)

\* a producer holds the lock and has pushed a payload while the first send of an
\* iteration is still in flight
C11_Witness ==
    /\ pc = "sending1"
    /\ lock \in Producers
    /\ prod[lock].pc = "push"
    /\ prod[lock].items = <<>>
    /\ webhooks # <<>>

====
